---- MODULE Spec2Model ----
(***************************************************************************)
(* dynsix-gandi: a dynamic DNS reconciler for IPv6 hosts.                  *)
(*                                                                         *)
(* One run of main() discovers the public IPv6 address, then, for every    *)
(* configured service, merges the discovered prefix with the service's     *)
(* suffix, fetches the provider's AAAA record and creates, replaces or     *)
(* leaves it.  The provider (its record store and its answers) and the     *)
(* public address are the environment; a run is repeated by an external    *)
(* trigger.                                                                *)
(***************************************************************************)
EXTENDS Integers, Sequences, FiniteSets, TLC

(***************************************************************************)
(* Bounds of the model.                                                    *)
(***************************************************************************)
\* number of invocations of main() in one behaviour
MaxRuns == 2

(***************************************************************************)
(* Addresses (std::net::Ipv6Addr): eight 16-bit segments.  The source      *)
(* indexes segments 0..7; a TLA+ tuple is indexed 1..8, so segments()[k]   *)
(* is a[k+1].                                                              *)
(***************************************************************************)
SegVals == {0, 65535}

Addrs == [1..8 -> SegVals]

NoAddr == <<>>

\* merge_ips splitting one segment early
MergeOffByOne(prefix, suffix) ==
    << prefix[1], prefix[2], prefix[3], suffix[4],
       suffix[5], suffix[6], suffix[7], suffix[8] >>

\* merge_ips: prefix segments 0..3, suffix segments 4..7
merge_ips(prefix, suffix) ==
    << prefix[1], prefix[2], prefix[3], prefix[4],
       suffix[5], suffix[6], suffix[7], suffix[8] >>

(***************************************************************************)
(* Address strings.  ip.to_string() prints the canonical text; from_str    *)
(* accepts the canonical text and every other valid spelling of the same   *)
(* address (upper-case digits, uncompressed zeros), and fails on text that *)
(* is no IPv6 address.                                                     *)
(***************************************************************************)
to_string(ip) == [form |-> "canon", addr |-> ip]

Spelled(ip) == [form |-> "alt", addr |-> ip]

Malformed == [form |-> "bad", addr |-> NoAddr]

from_str(str) ==
    IF str.form = "bad" THEN [ok |-> FALSE, addr |-> NoAddr]
                        ELSE [ok |-> TRUE, addr |-> str.addr]

(***************************************************************************)
(* Configuration (config.rs): services by name, each with suffix and ttl.  *)
(* The record of a service is the pair (fqdn, name); the services of the   *)
(* model have distinct pairs, so a service's name stands for its record.   *)
(***************************************************************************)
Services == {"web", "mail"}

\* the [services.<name>] tables a configuration file may hold
ServiceConfig ==
    { [suffix |-> <<65152, 0, 0, 0, 0, 0, 0, 1>>, ttl |-> 300],
      [suffix |-> <<0, 0, 0, 0, 171, 205, 239, 1>>, ttl |-> 3600] }

\* the ttl of a record someone else wrote
ForeignTtls == {300, 3600}

\* the addresses the discovery service can report
PublicIps ==
    { <<8193, 3512, 1, 2, 0, 0, 0, 9>>,
      <<8193, 3512, 1, 2, 171, 205, 239, 1>>,
      <<8193, 3512, 1, 3, 0, 0, 0, 9>> }

(***************************************************************************)
(* Provider payloads.                                                      *)
(***************************************************************************)
NoRecord == [present |-> FALSE, rrset_values |-> <<>>, rrset_ttl |-> 0]

\* the request built from the configured suffix instead of the merged address
RequestSendsSuffix(ip, service) ==
    [rrset_values |-> <<to_string(service.suffix)>>, rrset_ttl |-> service.ttl]

GandiRecordRequest(ip, service) ==
    [rrset_values |-> <<to_string(ip)>>, rrset_ttl |-> service.ttl]

\* GandiError codes the provider answers with
ErrorCodes == {404, 500}

\* Result<GandiResponse, reqwest::Error>
Err == [kind |-> "Err", code |-> 0, rrset_values |-> <<>>, rrset_ttl |-> 0]

Error(code) == [kind |-> "Error", code |-> code, rrset_values |-> <<>>, rrset_ttl |-> 0]

Message == [kind |-> "Message", code |-> 0, rrset_values |-> <<>>, rrset_ttl |-> 0]

GandiRecordResponse(rec) ==
    [kind |-> "GandiRecordResponse", code |-> 0,
     rrset_values |-> rec.rrset_values, rrset_ttl |-> rec.rrset_ttl]

VARIABLES
    config,      \* config.services: name -> ServiceConfig
    publicIp,    \* environment: the host's public address
    store,       \* environment: the provider's AAAA record of each service
    run,         \* number of the current invocation of main()
    pc,          \* position of main(): "start", "loop", "ok", "err", "panic"
    ip_info,     \* ip_info.ip once discovered
    todo,        \* services the for loop has not visited yet
    calls,       \* outbound calls of the current run, in order, with their answers
    lastWrite,   \* per service: the address discovered by the run whose write last succeeded
    prefix, suffix, merged   \* arguments and result of a merge_ips call on its own

vars == << config, publicIp, store, run, pc, ip_info, todo, calls, lastWrite,
           prefix, suffix, merged >>

mergeVars == << prefix, suffix, merged >>

(***************************************************************************)
(* The environment.                                                        *)
(***************************************************************************)
\* What the provider may hold for a service: nothing, or a record whose
\* values are spellings of the service's possible targets, or text that is
\* no address, or no value at all.
RecordValues(s) ==
    LET targets == { merge_ips(p, config[s].suffix) : p \in PublicIps }
    IN  { <<>>, <<Malformed>> }
          \cup { <<to_string(t)>> : t \in targets }
          \cup { <<Spelled(t)>> : t \in targets }
          \cup { <<to_string(p[1]), to_string(p[2])>> :
                    p \in { q \in targets \X targets : q[1] # q[2] } }

Records(s) ==
    { [present |-> TRUE, rrset_values |-> v, rrset_ttl |-> t] :
        v \in RecordValues(s), t \in ForeignTtls }

\* the record the provider holds after it applied a create or replace request
Stored(req) ==
    [present |-> TRUE, rrset_values |-> req.rrset_values, rrset_ttl |-> req.rrset_ttl]

\* the answers the provider can give to the GET of a service's record
FetchAnswers(s) ==
    { Err, Message } \cup { Error(c) : c \in ErrorCodes \ {404} }
      \cup (IF store[s].present THEN { GandiRecordResponse(store[s]) } ELSE { Error(404) })

\* the answers the provider can give to a POST or PUT
WriteAnswers(req) ==
    { Err, Message, GandiRecordResponse(req) } \cup { Error(c) : c \in ErrorCodes }

\* whether the provider applied a write it answered with resp: a success
\* message means applied, an error payload means not applied; a lost or
\* otherwise shaped answer leaves both open.
MayApply(resp) ==
    CASE resp.kind = "Message" -> { TRUE }
      [] resp.kind = "Error"   -> { FALSE }
      [] OTHER                 -> BOOLEAN

(***************************************************************************)
(* The log of outbound calls.                                              *)
(***************************************************************************)
NoRequest == [rrset_values |-> <<>>, rrset_ttl |-> 0]

Call(op, s, req, resp) == [op |-> op, svc |-> s, req |-> req, resp |-> resp]

(***************************************************************************)
(* main(): the match on the fetched response and the comparison.           *)
(***************************************************************************)
\* the match without its 404 arm: every provider error is printed
ArmErrorsReported(resp) ==
    CASE resp.kind = "Error"               -> "report"
      [] resp.kind = "GandiRecordResponse" -> "record"
      [] OTHER                             -> "ignore"

\* the match with its 404 arm taking every provider error
ArmErrorsCreate(resp) ==
    CASE resp.kind = "Error"               -> "create"
      [] resp.kind = "GandiRecordResponse" -> "record"
      [] OTHER                             -> "ignore"

\* the arm of the match on get_gandi_ip's response
Arm(resp) ==
    CASE resp.kind = "Error" /\ resp.code = 404 -> "create"
      [] resp.kind = "Error"                    -> "report"
      [] resp.kind = "GandiRecordResponse"      -> "record"
      [] OTHER                                  -> "ignore"

\* the comparison looking for the address among all values of the record
CompareAnyValue(record, service_ip) ==
    IF Len(record.rrset_values) = 0 THEN "panic"
    ELSE IF \E i \in 1..Len(record.rrset_values) : ~from_str(record.rrset_values[i]).ok
         THEN "panic"
    ELSE IF \A i \in 1..Len(record.rrset_values) :
                from_str(record.rrset_values[i]).addr # service_ip
         THEN "differs"
    ELSE "same"

\* the comparison made on the text instead of the parsed address
CompareText(record, service_ip) ==
    IF Len(record.rrset_values) = 0 THEN "panic"
    ELSE IF record.rrset_values[1] # to_string(service_ip) THEN "differs"
    ELSE "same"

\* !Ipv6Addr::from_str(&record.rrset_values[0]).unwrap().eq(&service_ip)
Compare(record, service_ip) ==
    IF Len(record.rrset_values) = 0 THEN "panic"
    ELSE LET parsed == from_str(record.rrset_values[1])
         IN  IF ~parsed.ok THEN "panic"
             ELSE IF parsed.addr # service_ip THEN "differs"
             ELSE "same"

\* the loop body up to the fetch: the merged address of service s
service_ip(s) == merge_ips(ip_info, config[s].suffix)

\* set_gandi_record / update_gandi_record and the match on their result
Write(s, op, fetched, resp, applied) ==
    LET req == GandiRecordRequest(service_ip(s), config[s])
    IN  /\ calls' = calls \o << Call("fetch", s, NoRequest, fetched),
                               Call(op, s, req, resp) >>
        /\ store' = IF applied THEN [store EXCEPT ![s] = Stored(req)] ELSE store
        /\ pc' = IF resp.kind = "Err" THEN "err" ELSE "loop"
        /\ lastWrite' = [lastWrite EXCEPT ![s] =
                            IF resp.kind = "Message" THEN ip_info
                            ELSE IF applied THEN NoAddr
                            ELSE @]

\* an iteration that makes no write
NoWrite(s, fetched, next) ==
    /\ calls' = calls \o << Call("fetch", s, NoRequest, fetched) >>
    /\ pc' = next
    /\ UNCHANGED << store, lastWrite >>

Init ==
    /\ config \in [Services -> ServiceConfig]
    /\ publicIp \in PublicIps
    /\ store = [s \in Services |-> NoRecord]
    /\ run = 1
    /\ pc = "start"
    /\ ip_info = NoAddr
    /\ todo = {}
    /\ calls = <<>>
    /\ lastWrite = [s \in Services |-> NoAddr]
    /\ prefix = NoAddr /\ suffix = NoAddr /\ merged = NoAddr

\* get_ip answers with the public address
GetIpOk ==
    /\ pc = "start"
    /\ ip_info' = publicIp
    /\ todo' = Services
    /\ calls' = << Call("get_ip", "", NoRequest, Message) >>
    /\ pc' = "loop"
    /\ UNCHANGED << config, publicIp, store, run, lastWrite, mergeVars >>

\* get_ip fails and main goes on with the unspecified address
GetIpErrFallsBack ==
    /\ pc = "start"
    /\ calls' = << Call("get_ip", "", NoRequest, Err) >>
    /\ ip_info' = <<0, 0, 0, 0, 0, 0, 0, 0>>
    /\ todo' = Services
    /\ pc' = "loop"
    /\ UNCHANGED << config, publicIp, store, run, lastWrite, mergeVars >>

\* get_ip fails: .expect("Failed to get public IP") panics
GetIpErr ==
    /\ pc = "start"
    /\ calls' = << Call("get_ip", "", NoRequest, Err) >>
    /\ pc' = "panic"
    /\ UNCHANGED << config, publicIp, store, run, ip_info, todo, lastWrite, mergeVars >>

\* get_gandi_ip(..).await? returns the reqwest error from main
FetchErr(s) ==
    /\ pc = "loop" /\ s \in todo
    /\ NoWrite(s, Err, "err")
    /\ todo' = todo \ {s}
    /\ UNCHANGED << config, publicIp, run, ip_info, mergeVars >>

\* GandiResponse::Error(GandiError { code: 404, .. })
NotFound(s) ==
    /\ pc = "loop" /\ s \in todo
    /\ \E fetched \in FetchAnswers(s) :
         /\ Arm(fetched) = "create"
         /\ \E resp \in WriteAnswers(GandiRecordRequest(service_ip(s), config[s])) :
              \E applied \in MayApply(resp) :
                 Write(s, "create", fetched, resp, applied)
    /\ todo' = todo \ {s}
    /\ UNCHANGED << config, publicIp, run, ip_info, mergeVars >>

\* GandiResponse::Error(e) => println
ProviderError(s) ==
    /\ pc = "loop" /\ s \in todo
    /\ \E fetched \in FetchAnswers(s) :
         /\ Arm(fetched) = "report"
         /\ NoWrite(s, fetched, "loop")
    /\ todo' = todo \ {s}
    /\ UNCHANGED << config, publicIp, run, ip_info, mergeVars >>

\* _ => {}
Ignored(s) ==
    /\ pc = "loop" /\ s \in todo
    /\ \E fetched \in FetchAnswers(s) :
         /\ Arm(fetched) = "ignore"
         /\ fetched.kind # "Err"
         /\ NoWrite(s, fetched, "loop")
    /\ todo' = todo \ {s}
    /\ UNCHANGED << config, publicIp, run, ip_info, mergeVars >>

\* GandiRecordResponse(record): rrset_values[0] or unwrap() panics
RecordPanic(s) ==
    /\ pc = "loop" /\ s \in todo
    /\ \E fetched \in FetchAnswers(s) :
         /\ Arm(fetched) = "record"
         /\ Compare(fetched, service_ip(s)) = "panic"
         /\ NoWrite(s, fetched, "panic")
    /\ todo' = todo \ {s}
    /\ UNCHANGED << config, publicIp, run, ip_info, mergeVars >>

\* GandiRecordResponse(record): the record differs
RecordDiffers(s) ==
    /\ pc = "loop" /\ s \in todo
    /\ \E fetched \in FetchAnswers(s) :
         /\ Arm(fetched) = "record"
         /\ Compare(fetched, service_ip(s)) = "differs"
         /\ \E resp \in WriteAnswers(GandiRecordRequest(service_ip(s), config[s])) :
              \E applied \in MayApply(resp) :
                 Write(s, "replace", fetched, resp, applied)
    /\ todo' = todo \ {s}
    /\ UNCHANGED << config, publicIp, run, ip_info, mergeVars >>

\* GandiRecordResponse(record): the record was already set to the correct address
RecordSame(s) ==
    /\ pc = "loop" /\ s \in todo
    /\ \E fetched \in FetchAnswers(s) :
         /\ Arm(fetched) = "record"
         /\ Compare(fetched, service_ip(s)) = "same"
         /\ NoWrite(s, fetched, "loop")
    /\ todo' = todo \ {s}
    /\ UNCHANGED << config, publicIp, run, ip_info, mergeVars >>

\* the for loop is exhausted: Ok(())
LoopEnd ==
    /\ pc = "loop" /\ todo = {}
    /\ pc' = "ok"
    /\ UNCHANGED << config, publicIp, store, run, ip_info, todo, calls, lastWrite, mergeVars >>

Finished == pc \in {"ok", "err", "panic"}

\* the external trigger starts main() again
NextRun ==
    /\ Finished /\ run < MaxRuns
    /\ run' = run + 1
    /\ pc' = "start"
    /\ ip_info' = NoAddr
    /\ todo' = {}
    /\ calls' = <<>>
    /\ UNCHANGED << config, publicIp, store, lastWrite, mergeVars >>

\* Someone else changes or deletes the provider's record of a service.  A run
\* reads the record of a service once, in the service's iteration, and the
\* public address once, at its start; a change during a run is therefore seen
\* by the program exactly as the same change made before that run or after
\* it, and the environment's steps are taken between runs.
RecordChanged(s) ==
    /\ pc = "start"
    /\ \E rec \in Records(s) \cup { NoRecord } :
         /\ rec # store[s]
         /\ store' = [store EXCEPT ![s] = rec]
    /\ lastWrite' = [lastWrite EXCEPT ![s] = NoAddr]
    /\ UNCHANGED << config, publicIp, run, pc, ip_info, todo, calls, mergeVars >>

\* the network hands the host another prefix
PrefixChanged ==
    /\ pc = "start"
    /\ \E ip \in PublicIps :
         /\ ip # publicIp
         /\ publicIp' = ip
    /\ UNCHANGED << config, store, run, pc, ip_info, todo, calls, lastWrite, mergeVars >>

Next ==
    \/ GetIpOk
    \/ GetIpErr
    \/ \E s \in Services : FetchErr(s)
    \/ \E s \in Services : NotFound(s)
    \/ \E s \in Services : ProviderError(s)
    \/ \E s \in Services : Ignored(s)
    \/ \E s \in Services : RecordPanic(s)
    \/ \E s \in Services : RecordDiffers(s)
    \/ \E s \in Services : RecordSame(s)
    \/ LoopEnd
    \/ NextRun
    \/ \E s \in Services : RecordChanged(s)
    \/ PrefixChanged

Spec == Init /\ [][Next]_vars

(***************************************************************************)
(* merge_ips on its own, over every pair of addresses.                     *)
(***************************************************************************)
InitMerge ==
    /\ prefix \in Addrs /\ suffix \in Addrs /\ merged = NoAddr
    /\ config = [s \in Services |-> CHOOSE c \in ServiceConfig : TRUE]
    /\ publicIp = CHOOSE ip \in PublicIps : TRUE
    /\ store = [s \in Services |-> NoRecord]
    /\ run = 1
    /\ pc = "merge"
    /\ ip_info = NoAddr
    /\ todo = {}
    /\ calls = <<>>
    /\ lastWrite = [s \in Services |-> NoAddr]

MergeCall ==
    /\ pc = "merge" /\ merged = NoAddr
    /\ merged' = merge_ips(prefix, suffix)
    /\ UNCHANGED << config, publicIp, store, run, pc, ip_info, todo, calls, lastWrite,
                    prefix, suffix >>

NextMerge == MergeCall

SpecMerge == InitMerge /\ [][NextMerge]_vars

(***************************************************************************)
(* What the claims speak about.                                            *)
(***************************************************************************)
\* the calls of the current run made for service s, in order
CallsOf(s) == SelectSeq(calls, LAMBDA c : c.svc = s)

\* the create and replace calls of the current run made for service s
WritesOf(s) == SelectSeq(calls, LAMBDA c : c.svc = s /\ c.op \in {"create", "replace"})

\* service s was fetched in the current run
Fetched(s) == Len(CallsOf(s)) > 0 /\ CallsOf(s)[1].op = "fetch"

\* what the fetch of service s answered
Answer(s) == CallsOf(s)[1].resp

\* the target address of service s in the current run: the discovered
\* address's first four segments, then the suffix's last four
Target(s) ==
    << ip_info[1], ip_info[2], ip_info[3], ip_info[4],
       config[s].suffix[5], config[s].suffix[6], config[s].suffix[7], config[s].suffix[8] >>

\* the payload that holds exactly the target and the configured ttl
TargetPayload(s) ==
    [rrset_values |-> << [form |-> "canon", addr |-> Target(s)] >>,
     rrset_ttl |-> config[s].ttl]

\* the fetch answered with a record whose first value is the text of an address
FirstAddress(s) ==
    /\ Answer(s).kind = "GandiRecordResponse"
    /\ Len(Answer(s).rrset_values) > 0
    /\ Answer(s).rrset_values[1].form # "bad"

Absent(s) == Fetched(s) /\ Answer(s).kind = "Error" /\ Answer(s).code = 404

Stale(s) == Fetched(s) /\ FirstAddress(s) /\ Answer(s).rrset_values[1].addr # Target(s)

Current(s) == Fetched(s) /\ FirstAddress(s) /\ Answer(s).rrset_values[1].addr = Target(s)

ProviderFailed(s) == Fetched(s) /\ Answer(s).kind = "Error" /\ Answer(s).code # 404

MalformedFirst(s) ==
    /\ Fetched(s) /\ Answer(s).kind = "GandiRecordResponse"
    /\ Len(Answer(s).rrset_values) > 0
    /\ Answer(s).rrset_values[1].form = "bad"

OneWrite(s, op) ==
    /\ Len(WritesOf(s)) = 1
    /\ WritesOf(s)[1].op = op
    /\ WritesOf(s)[1].req = TargetPayload(s)
    /\ Len(CallsOf(s)) = 2 /\ CallsOf(s)[2] = WritesOf(s)[1]

\* service s was fetched and the action its answer calls for was taken
Reconciled(s) ==
    /\ Fetched(s)
    /\ Absent(s) => OneWrite(s, "create")
    /\ Stale(s) => OneWrite(s, "replace")
    /\ Current(s) => WritesOf(s) = <<>>

SamePrefix(a, b) == \A i \in 1..4 : a[i] = b[i]

\* C1: when the fetch of one service fails (the read call fails, or the
\* provider answers with an error other than not found), every other service
\* is still fetched in the same run and reaches its action.
C1_FetchFailureIsolated ==
    \A s \in Services :
        (Finished /\ Fetched(s) /\ (Answer(s).kind = "Err" \/ ProviderFailed(s))
                  /\ \A o \in Services : WritesOf(o) = <<>> \/ WritesOf(o)[1].resp.kind # "Err")
            => \A o \in Services \ {s} : Reconciled(o)

\* C2: when the create or replace call of one service fails (the call fails,
\* or the provider answers with an error payload), the run continues: every
\* service of the run is still fetched and reconciled.
C2_WriteFailureIsolated ==
    \A s \in Services :
        (Finished /\ WritesOf(s) # <<>> /\ WritesOf(s)[1].resp.kind \in {"Err", "Error"})
            => \A o \in Services \ {s} : Reconciled(o)

\* C3: a fetch answered with provider error 404 is followed by exactly one
\* create call for that service, carrying the merged target address and the
\* configured ttl, and by no replace call.
C3_AbsentCreates == \A s \in Services : Absent(s) => OneWrite(s, "create")

C3_Witness ==
    \E s \in Services :
        /\ Absent(s) /\ OneWrite(s, "create")
        /\ ip_info[5] # config[s].suffix[5]
        /\ ip_info[1] # config[s].suffix[1]

\* C4: a fetched record whose first address differs from the target is
\* followed by exactly one replace call whose payload holds the target alone
\* and the configured ttl, whatever else the record lists.
C4_StaleReplaces == \A s \in Services : Stale(s) => OneWrite(s, "replace")

C4_Witness ==
    \E s \in Services :
        /\ Stale(s) /\ OneWrite(s, "replace")
        /\ Len(Answer(s).rrset_values) = 2
        /\ Answer(s).rrset_values[2].addr = Target(s)

\* C5: a fetched record whose first address equals the target is followed by
\* no create and no replace call, whatever its other addresses and its ttl.
C5_CurrentNoWrite == \A s \in Services : Current(s) => WritesOf(s) = <<>>

C5_Witness ==
    \E s \in Services :
        /\ Current(s) /\ WritesOf(s) = <<>>
        /\ Len(Answer(s).rrset_values) = 2
        /\ Answer(s).rrset_values[2].addr # Target(s)
        /\ Answer(s).rrset_ttl # config[s].ttl

\* C6: a provider error on fetch whose code is not 404 is followed by no
\* create and no replace call for that service.
C6_ProviderErrorNoWrite == \A s \in Services : ProviderFailed(s) => WritesOf(s) = <<>>

C6_Witness ==
    \E s \in Services :
        /\ ProviderFailed(s) /\ Answer(s).code = 500 /\ WritesOf(s) = <<>>
        /\ ~store[s].present
        /\ pc = "ok"

\* C7: a fetched record whose first value is no IPv6 address fails that
\* service alone: no write is made for it and the other services of the run
\* are still reconciled.
C7_MalformedIsolated ==
    \A s \in Services :
        (Finished /\ MalformedFirst(s))
            => /\ WritesOf(s) = <<>>
               /\ \A o \in Services \ {s} : Reconciled(o)

\* C8: once a write of a service succeeded and nobody else changed its record,
\* an iteration of that service in a later run that discovered the same prefix
\* makes no write; a record it fetches is the one written.
C8_Convergence ==
    [][ \A s \in Services :
          ( /\ lastWrite[s] # NoAddr
            /\ pc = "loop" /\ s \in todo /\ s \notin todo'
            /\ SamePrefix(ip_info, lastWrite[s]) )
          => /\ WritesOf(s)' = <<>>
             /\ Fetched(s)'
             /\ Answer(s)'.kind = "GandiRecordResponse"
                   => /\ Current(s)'
                      /\ Answer(s)'.rrset_values = TargetPayload(s).rrset_values
                      /\ Answer(s)'.rrset_ttl = config[s].ttl ]_vars

C8_Witness ==
    \E s \in Services :
        /\ lastWrite[s] # NoAddr /\ lastWrite[s] # ip_info
        /\ ip_info # NoAddr /\ SamePrefix(ip_info, lastWrite[s])
        /\ Current(s) /\ WritesOf(s) = <<>>
        /\ run = 2

\* C9: merge_ips never fails; its result has the prefix's segments 0..3 and
\* the suffix's segments 4..7, and is the same for every prefix with these
\* segments 0..3 and every suffix with these segments 4..7.
C9_Merge ==
    /\ merge_ips(prefix, suffix) \in Addrs
    /\ merged # NoAddr =>
          /\ \A i \in 1..4 : merged[i] = prefix[i]
          /\ \A i \in 5..8 : merged[i] = suffix[i]
          /\ \A other \in [1..4 -> SegVals] :
                /\ merge_ips([i \in 1..8 |-> IF i <= 4 THEN prefix[i] ELSE other[i - 4]],
                             suffix) = merged
                /\ merge_ips(prefix,
                             [i \in 1..8 |-> IF i <= 4 THEN other[i] ELSE suffix[i]]) = merged

C9_Witness ==
    /\ merged # NoAddr
    /\ \A i \in 1..8 : prefix[i] # suffix[i]
    /\ merged # prefix /\ merged # suffix

\* C10: the discovery call is the first call of a run and its only discovery
\* call; when it fails the run halts failing, with no fetch, create or replace
\* call for any service.
C10_DiscoveryFirst ==
    /\ calls # <<>> => calls[1].op = "get_ip"
    /\ \A i \in 2..Len(calls) : calls[i].op # "get_ip"
    /\ (calls # <<>> /\ calls[1].resp.kind = "Err") => (Len(calls) = 1 /\ pc = "panic")
    /\ (\E s \in Services : CallsOf(s) # <<>>) =>
          (ip_info # NoAddr /\ calls[1].op = "get_ip" /\ calls[1].resp.kind # "Err")

C10_Witness ==
    /\ pc = "panic" /\ Len(calls) = 1 /\ calls[1].resp.kind = "Err"
    /\ \E s \in Services : ~store[s].present

====
